---- MODULE Spec2Model ----
(***************************************************************************)
(* Model of app.py ("Auditoria Integracion de Saldos"): a CONTPAQ i        *)
(* auxiliary-ledger export is read as an untyped grid, its movement rows   *)
(* are given the account of the last header row above them, invoices are   *)
(* aggregated per reference (global) and per account + reference, and the  *)
(* tabs show date-filtered views reconciled against the ledger's own       *)
(* "Total:" rows.                                                          *)
(*                                                                         *)
(* Conventions.  A cell is its text as astype(str) renders it, so an empty *)
(* cell is "nan".  A DataFrame whose row order matters (movs_valid) is a   *)
(* sequence of records; a groupby result, whose keys are unique, is a set  *)
(* of records.  Amounts are integers (the float sums of the program are    *)
(* exact on them).  A date is its day ordinal.                             *)
(***************************************************************************)
EXTENDS Integers, Sequences, FiniteSets, TLC

\* Bounds of the exploration: rows of the uploaded grid, movement rows in it.
MaxRows == 5
MaxMovs == 2

\* np.nan in a numeric column, pd.NaT in a date column, None in the widgets
\* and in resumen_auxiliar.
NaN == -999999
NaT == 0
None == -1
\* An empty cell, and np.nan in a text column, as astype(str) shows it.
NA == "nan"

-----------------------------------------------------------------------------
(* Cell vocabulary of the grids that are explored.                          *)

CodeA == "100-000-000-001"
CodeB == "100-000-000-002"
NameA == "CLIENTE A"
NameB == "CLIENTE B"
NameC == "CLIENTE C"
NameD == "CLIENTE D"
NameE == "CLIENTE E"
SaldoInicialText == "Saldo inicial :"
TotalText == "Total:"
TotalClientesText == "Total Clientes :"

D1 == "01/Ene/2025"
D2 == "02/Ene/2025"
DX == "01/Xyz/2025"

\* Further cells of column 0: a code of three groups; dates with a 1-digit
\* day, with '-' as separator, with the month in capitals, of a day the month
\* does not have.
CodeCorto == "100-000-001"
D1Corto == "1/Ene/2025"
D1Guion == "01-Ene-2025"
D1Mayus == "01/ENE/2025"
DFeb31 == "31/Feb/2025"

\* 'Saldo inicial' in capitals.
SaldoInicialMayus == "SALDO INICIAL :"

\* A grid row: cells of the 8 positional columns.
EmptyRow == [c \in 0..7 |-> NA]

HeaderRow(code, name) ==
    [EmptyRow EXCEPT ![0] = code, ![1] = name, ![6] = SaldoInicialText, ![7] = "0"]

\* A row with a code and a name in columns 0 and 1 and text in column col.
HeaderRowEn(code, name, col, text) ==
    [EmptyRow EXCEPT ![0] = code, ![1] = name, ![col] = text]

MovementRow(fecha, ref, cargos, abonos) ==
    [EmptyRow EXCEPT ![0] = fecha, ![1] = "Ingresos", ![4] = ref,
                     ![5] = cargos, ![6] = abonos]

TotalRow(cargos, abonos, saldo) ==
    [EmptyRow EXCEPT ![4] = TotalText, ![5] = cargos, ![6] = abonos, ![7] = saldo]

TotalClientesRow(cargos, abonos, saldo) ==
    [EmptyRow EXCEPT ![0] = TotalClientesText, ![1] = cargos, ![2] = abonos,
                     ![3] = saldo]

-----------------------------------------------------------------------------
(* Cell conversions.                                                        *)

\* pd.to_numeric(cell, errors="coerce"): the number a cell shows, NaN for an
\* empty or non-numeric cell.
to_numeric(cell) ==
    CASE cell = "0" -> 0
      [] cell = "300" -> 300
      [] cell = "500" -> 500
      [] cell = "1000" -> 1000
      [] OTHER -> NaN

\* str.strip() of a cell.
str_strip(cell) ==
    CASE cell = " 100 " -> "100"
      [] cell = "  " -> ""
      [] OTHER -> cell

\* Variant: the reference clean-up also rewrites a bare number to the
\* prefixed reference of the same number.
clean_referencia_alias(cell) ==
    LET s == str_strip(cell)
    IN  IF s = "nan" \/ s = "" THEN NA
        ELSE IF s = "123" THEN "NCTA123" ELSE s

\* Variant: "nan" and "" become missing before the cell is trimmed.
clean_referencia_reemplaza_antes(cell) ==
    IF cell = "nan" \/ cell = "" THEN NA ELSE str_strip(cell)

\* The reference clean-up: astype(str).str.strip(), then "nan" and "" become
\* missing.
clean_referencia(cell) ==
    LET s == str_strip(cell)
    IN  IF s = "nan" \/ s = "" THEN NA ELSE s

\* The text of a cell read as digits, 3 letters and digits around two
\* separators: the day as written, the separator, the month letters, the
\* year as written; <<>> for a cell that does not read so.
date_text(cell) ==
    CASE cell = D1 -> <<"01", "/", "Ene", "2025">>
      [] cell = D2 -> <<"02", "/", "Ene", "2025">>
      [] cell = DX -> <<"01", "/", "Xyz", "2025">>
      [] cell = D1Corto -> <<"1", "/", "Ene", "2025">>
      [] cell = D1Guion -> <<"01", "-", "Ene", "2025">>
      [] cell = D1Mayus -> <<"01", "/", "ENE", "2025">>
      [] cell = DFeb31 -> <<"31", "/", "Feb", "2025">>
      [] OTHER -> <<>>

\* int() of the digit strings of the vocabulary.
int_of(digits) ==
    CASE digits = "1" -> 1 [] digits = "01" -> 1 [] digits = "02" -> 2
      [] digits = "31" -> 31 [] digits = "2025" -> 2025
      [] OTHER -> 0

\* Variant: ^\d{1,2}/[A-Za-z]{3}/\d{4}$, a day of one or two digits.
date_pattern_dia_corto(cell) ==
    LET t == date_text(cell)
    IN  t # <<>> /\ t[2] = "/" /\ t[4] = "2025"

\* date_pattern = ^\d{2}/[A-Za-z]{3}/\d{4}$: two digits, '/', three letters,
\* '/', four digits.
date_pattern(cell) ==
    LET t == date_text(cell)
    IN  t # <<>> /\ t[1] \in {"01", "02", "31"} /\ t[2] = "/" /\ t[4] = "2025"

\* re.match(r"^(\d{2})/([A-Za-z]{3})/(\d{4})$"): the day, month abbreviation
\* and year of a cell of that shape; <<>> when the cell has another shape.
date_groups(cell) ==
    IF date_pattern(cell)
    THEN <<int_of(date_text(cell)[1]), date_text(cell)[3], int_of(date_text(cell)[4])>>
    ELSE <<>>

\* str.title() of a month abbreviation.
str_title(abbr) ==
    CASE abbr = "ENE" -> "Ene"
      [] abbr = "ene" -> "Ene"
      [] OTHER -> abbr

\* month_map: the month number of a Spanish abbreviation, 0 when unknown.
month_map(abbr) ==
    CASE abbr = "Ene" -> 1 [] abbr = "Feb" -> 2 [] abbr = "Mar" -> 3
      [] abbr = "Abr" -> 4 [] abbr = "May" -> 5 [] abbr = "Jun" -> 6
      [] abbr = "Jul" -> 7 [] abbr = "Ago" -> 8 [] abbr = "Sep" -> 9
      [] abbr = "Oct" -> 10 [] abbr = "Nov" -> 11 [] abbr = "Dic" -> 12
      [] OTHER -> 0

\* The days of month m (of a year that is not a leap year).
days_in_month(m) ==
    IF m = 2 THEN 28 ELSE IF m \in {4, 6, 9, 11} THEN 30 ELSE 31

\* parse_spanish_date: the day ordinal (days since 31/Dic/2024, months taken
\* as 31 days) of a dd/Mon/aaaa cell; NaT for any other cell, for an
\* abbreviation whose title() is outside month_map, and for a day the month
\* does not have (pd.to_datetime(errors="coerce")).
parse_spanish_date(cell) ==
    LET g == date_groups(str_strip(cell))
        mon == IF g = <<>> THEN 0 ELSE month_map(str_title(g[2]))
    IN  IF cell = NA \/ g = <<>> THEN NaT
        ELSE IF mon = 0 THEN NaT
        ELSE IF g[1] < 1 \/ g[1] > days_in_month(mon) THEN NaT
        ELSE (g[3] - 2025) * 372 + (mon - 1) * 31 + g[1]

-----------------------------------------------------------------------------
(* Column helpers.                                                          *)

\* Variant: Series.sum(skipna=False), NaN as soon as an entry is NaN.
RECURSIVE SumSkipSin(_, _)
SumSkipSin(col, idx) ==
    IF idx = {} THEN 0
    ELSE LET i == CHOOSE x \in idx : TRUE
             rest == SumSkipSin(col, idx \ {i})
         IN  IF col[i] = NaN \/ rest = NaN THEN NaN ELSE col[i] + rest

\* Series.sum(): the sum of col over the index set idx, NaN entries skipped
\* (an all-NaN or empty selection sums to 0).
RECURSIVE SumNa(_, _)
SumNa(col, idx) ==
    IF idx = {} THEN 0
    ELSE LET i == CHOOSE x \in idx : TRUE
         IN  (IF col[i] = NaN THEN 0 ELSE col[i]) + SumNa(col, idx \ {i})

\* Series.min() of a date column over idx: the earliest date that is not NaT,
\* NaT when there is none.
MinFecha(col, idx) ==
    LET ds == {col[i] : i \in idx} \ {NaT}
    IN  IF ds = {} THEN NaT ELSE CHOOSE d \in ds : \A e \in ds : d <= e

\* Series.ffill() at position i: the last value at or above i that is not
\* missing.
RECURSIVE ffill(_, _)
ffill(col, i) ==
    IF i = 0 THEN NA
    ELSE IF col[i] # NA THEN col[i]
    ELSE ffill(col, i - 1)

-----------------------------------------------------------------------------
(* procesar_movimientos.                                                    *)

\* The groups of digits of a cell made of digit groups joined by hyphens, as
\* written; <<>> for any other cell.
code_text(cell) ==
    CASE cell = CodeA -> <<"100", "000", "000", "001">>
      [] cell = CodeB -> <<"100", "000", "000", "002">>
      [] cell = CodeCorto -> <<"100", "000", "001">>
      [] OTHER -> <<>>

\* account_pattern = ^\d{3}-\d{3}-\d{3}-\d{3}$: four groups of three digits.
account_pattern(cell) == Len(code_text(cell)) = 4

\* Variant: str.contains("Saldo inicial", case=False, na=False).
contains_saldo_inicial_sin_caja(cell) ==
    cell \in {SaldoInicialText, "Saldo inicial", SaldoInicialMayus}

\* str.contains("Saldo inicial", na=False): the cell holds the phrase, as
\* written.
contains_saldo_inicial(cell) == cell \in {SaldoInicialText, "Saldo inicial"}

\* Account-header rows: account code in column 0 and 'Saldo inicial' in
\* column 6.
is_account_header(row) ==
    account_pattern(row[0]) /\ contains_saldo_inicial(row[6])

\* Date rows: column 0 has the shape dd/Mon/aaaa.
is_date_row(row) == date_pattern(row[0])

\* df["account_code"], df["account_name"]: column 0 / column 1 of the header
\* rows, filled downwards, each column on its own.
account_code(grid) ==
    LET col == [j \in 1..Len(grid) |->
                  IF is_account_header(grid[j]) THEN grid[j][0] ELSE NA]
    IN  [i \in 1..Len(grid) |-> ffill(col, i)]

account_name(grid) ==
    LET col == [j \in 1..Len(grid) |->
                  IF is_account_header(grid[j]) THEN grid[j][1] ELSE NA]
    IN  [i \in 1..Len(grid) |-> ffill(col, i)]

\* movs: one record per date row, in grid order, with the renamed columns.
movs(grid) ==
    LET code == account_code(grid)
        name == account_name(grid)
        all == [i \in 1..Len(grid) |->
                  [fila |-> i,
                   fecha_raw |-> grid[i][0],
                   referencia |-> clean_referencia(grid[i][4]),
                   cargos |-> to_numeric(grid[i][5]),
                   abonos |-> to_numeric(grid[i][6]),
                   saldo |-> to_numeric(grid[i][7]),
                   fecha |-> parse_spanish_date(grid[i][0]),
                   account_code |-> code[i],
                   account_name |-> name[i]]]
        IsMov(m) == is_date_row(grid[m.fila])
    IN  SelectSeq(all, IsMov)

\* movs_valid: the movements that carry a reference.
valid_movs(grid) ==
    LET HasRef(m) == m.referencia # NA
    IN  SelectSeq(movs(grid), HasRef)

Col(mv, f) == [i \in DOMAIN mv |-> mv[i][f]]

\* resumen_auxiliar, the totals of the auxiliar starting at sin_dato: totals
\* of the 'Total Clientes :' row (the first one) and of the movements with a
\* reference; a total that is NaN is reported as None.
resumen_auxiliar_desde(grid, mv, sin_dato) ==
    LET tc == {i \in 1..Len(grid) : str_strip(grid[i][0]) = TotalClientesText}
        first == CHOOSE i \in tc : \A j \in tc : i <= j
        total_cargos_aux == IF tc = {} THEN sin_dato ELSE to_numeric(grid[first][1])
        total_abonos_aux == IF tc = {} THEN sin_dato ELSE to_numeric(grid[first][2])
        saldo_final_aux == IF tc = {} THEN sin_dato ELSE to_numeric(grid[first][3])
        total_cargos_movs == SumNa(Col(mv, "cargos"), DOMAIN mv)
        total_abonos_movs == SumNa(Col(mv, "abonos"), DOMAIN mv)
        saldo_neto_movs == total_cargos_movs - total_abonos_movs
        saldo_inicial_implicito ==
            IF saldo_final_aux # NaN THEN saldo_final_aux - saldo_neto_movs ELSE NaN
        OrNone(x) == IF x = NaN THEN None ELSE x
    IN  [total_cargos_movs |-> total_cargos_movs,
         total_abonos_movs |-> total_abonos_movs,
         saldo_neto_movs |-> saldo_neto_movs,
         total_cargos_aux |-> OrNone(total_cargos_aux),
         total_abonos_aux |-> OrNone(total_abonos_aux),
         saldo_final_aux |-> OrNone(saldo_final_aux),
         saldo_inicial_implicito |-> OrNone(saldo_inicial_implicito)]

\* Variant: the totals of the auxiliar start at 0 instead of NaN.
build_resumen_auxiliar_cero(grid, mv) == resumen_auxiliar_desde(grid, mv, 0)

\* resumen_auxiliar: the totals of the auxiliar start at NaN.
build_resumen_auxiliar(grid, mv) == resumen_auxiliar_desde(grid, mv, NaN)

\* The rows with 'Total:' in column 4.
tot_rows(grid) == {i \in 1..Len(grid) : str_strip(grid[i][4]) = TotalText}

\* Variant: of the 'Total:' rows of an account the first one is taken.
build_totales_cuentas_aux_primera(grid) ==
    LET code == account_code(grid)
        name == account_name(grid)
        tr == {i \in tot_rows(grid) : code[i] # NA /\ name[i] # NA}
        keys == {<<code[i], name[i]>> : i \in tr}
        first(k) == CHOOSE i \in tr :
                        /\ <<code[i], name[i]>> = k
                        /\ \A j \in tr : <<code[j], name[j]>> = k => i <= j
        num(i, c) == IF to_numeric(grid[i][c]) = NaN THEN 0 ELSE to_numeric(grid[i][c])
    IN  {[account_code |-> k[1],
          account_name |-> k[2],
          cargos_total_cuenta_aux |-> num(first(k), 5),
          abonos_total_cuenta_aux |-> num(first(k), 6),
          saldo_final_cuenta_aux |-> num(first(k), 7)] : k \in keys}

\* totales_cuentas_aux: the 'Total:' rows grouped by account code and name
\* (groupby drops the rows whose code or name is missing), amounts summed.
build_totales_cuentas_aux(grid) ==
    LET code == account_code(grid)
        name == account_name(grid)
        tr == {i \in tot_rows(grid) : code[i] # NA /\ name[i] # NA}
        keys == {<<code[i], name[i]>> : i \in tr}
        grp(k) == {i \in tr : <<code[i], name[i]>> = k}
        num(c) == [i \in 1..Len(grid) |-> to_numeric(grid[i][c])]
    IN  {[account_code |-> k[1],
          account_name |-> k[2],
          cargos_total_cuenta_aux |-> SumNa(num(5), grp(k)),
          abonos_total_cuenta_aux |-> SumNa(num(6), grp(k)),
          saldo_final_cuenta_aux |-> SumNa(num(7), grp(k))] : k \in keys}

-----------------------------------------------------------------------------
(* construir_facturas_global, construir_facturas_por_cuenta.                *)

\* The rows of mv with reference r.
RowsOf(mv, r) == {i \in DOMAIN mv : mv[i].referencia = r}

\* main_from_cargo: among the rows of r with cargos > 0, sorted by cargos
\* descending (the sort keeps grid order among equals), the first one; 0 when
\* r has no such row.
main_from_cargo(mv, r) ==
    LET pos == {i \in RowsOf(mv, r) : mv[i].cargos # NaN /\ mv[i].cargos > 0}
        top == {i \in pos : \A j \in pos : mv[j].cargos <= mv[i].cargos}
    IN  IF pos = {} THEN 0 ELSE CHOOSE i \in top : \A j \in top : i <= j

\* main_any: the rows of r sorted by fecha ascending, NaT last (the sort keeps
\* grid order among equals), the first one.
main_any(mv, r) ==
    LET rows == RowsOf(mv, r)
        dated == {i \in rows : mv[i].fecha # NaT}
        first == {i \in dated : \A j \in dated : mv[i].fecha <= mv[j].fecha}
        cand == IF dated = {} THEN rows ELSE first
    IN  CHOOSE i \in cand : \A j \in cand : i <= j

\* main_account: main_from_cargo when r has a positive cargo, else main_any.
main_account(mv, r) ==
    IF main_from_cargo(mv, r) # 0 THEN main_from_cargo(mv, r) ELSE main_any(mv, r)

\* num_cuentas: nunique() of account_code, missing codes not counted.
num_cuentas(mv, r) ==
    Cardinality({mv[i].account_code : i \in RowsOf(mv, r)} \ {NA})

\* Variant: more than one account, and some positive cargo and some positive
\* abono among the rows of the reference.
cruza_cuentas_signos_opuestos(mv, r) ==
    /\ num_cuentas(mv, r) > 1
    /\ \E i \in RowsOf(mv, r) : mv[i].cargos # NaN /\ mv[i].cargos > 0
    /\ \E i \in RowsOf(mv, r) : mv[i].abonos # NaN /\ mv[i].abonos > 0

\* cruza_cuentas: the reference appears in more than one account.
cruza_cuentas(mv, r) == num_cuentas(mv, r) > 1

\* cuentas_involucradas: the distinct "code - name" texts of r's rows, here
\* as <<code, name>> pairs.
cuentas_involucradas(mv, r) ==
    {<<mv[i].account_code, mv[i].account_name>> : i \in RowsOf(mv, r)}

\* Variant: credits minus debits.
saldo_pendiente_invertido(cargos_total, abonos_total) == abonos_total - cargos_total

\* saldo_factura of a global invoice: the net balance, debits minus credits.
saldo_pendiente(cargos_total, abonos_total) == cargos_total - abonos_total

construir_facturas_global(mv) ==
    {[referencia |-> r,
      fecha_factura |-> MinFecha(Col(mv, "fecha"), RowsOf(mv, r)),
      cargos_total |-> SumNa(Col(mv, "cargos"), RowsOf(mv, r)),
      abonos_total |-> SumNa(Col(mv, "abonos"), RowsOf(mv, r)),
      account_code |-> mv[main_account(mv, r)].account_code,
      account_name |-> mv[main_account(mv, r)].account_name,
      num_cuentas |-> num_cuentas(mv, r),
      cruza_cuentas |-> cruza_cuentas(mv, r),
      cuentas_involucradas |-> cuentas_involucradas(mv, r),
      saldo_factura |-> saldo_pendiente(SumNa(Col(mv, "cargos"), RowsOf(mv, r)),
                                        SumNa(Col(mv, "abonos"), RowsOf(mv, r)))]
     : r \in {mv[i].referencia : i \in DOMAIN mv}}

\* The groups of groupby(["account_code", "account_name", "referencia"]):
\* rows whose code or name is missing belong to no group.
group_keys(mv) ==
    {<<mv[i].account_code, mv[i].account_name, mv[i].referencia>> :
        i \in {j \in DOMAIN mv : mv[j].account_code # NA /\ mv[j].account_name # NA}}

GroupRows(mv, k) ==
    {i \in DOMAIN mv : <<mv[i].account_code, mv[i].account_name, mv[i].referencia>> = k}

construir_facturas_por_cuenta(mv) ==
    {[account_code |-> k[1],
      account_name |-> k[2],
      referencia |-> k[3],
      fecha_factura |-> MinFecha(Col(mv, "fecha"), GroupRows(mv, k)),
      cargos_total |-> SumNa(Col(mv, "cargos"), GroupRows(mv, k)),
      abonos_total |-> SumNa(Col(mv, "abonos"), GroupRows(mv, k)),
      saldo_factura |-> SumNa(Col(mv, "cargos"), GroupRows(mv, k))
                        - SumNa(Col(mv, "abonos"), GroupRows(mv, k))]
     : k \in group_keys(mv)}

\* Variant: only the lower bound is applied.
filtrar_por_fecha_sin_hasta(df, desde, hasta) ==
    {f \in df : desde # None => (f.fecha_factura # NaT /\ f.fecha_factura >= desde)}

\* filtrar_por_fecha: a bound that is set keeps the rows whose fecha_factura
\* is on its side of it; a comparison with NaT is false.
filtrar_por_fecha(df, desde, hasta) ==
    {f \in df :
        /\ desde # None => (f.fecha_factura # NaT /\ f.fecha_factura >= desde)
        /\ hasta # None => (f.fecha_factura # NaT /\ f.fecha_factura <= hasta)}

\* Series.sum() of a column of a table (a set of rows with unique keys).
RECURSIVE SumCol(_, _)
SumCol(df, f) ==
    IF df = {} THEN 0
    ELSE LET x == CHOOSE y \in df : TRUE
         IN  (IF x[f] = NaN THEN 0 ELSE x[f]) + SumCol(df \ {x}, f)

-----------------------------------------------------------------------------
(* The tabs.                                                                *)

Cuenta(x) == <<x.account_code, x.account_name>>

\* cuentas_cuenta: the options of the "Cuenta contable" multiselect, the
\* accounts of the per-account invoices inside the date range.
cuentas_cuenta(fc, desde, hasta) ==
    {Cuenta(x) : x \in filtrar_por_fecha(fc, desde, hasta)}

\* df_cuenta_all: the per-account invoices inside the date range, of the
\* selected accounts when some are selected.
build_df_cuenta_all(fc, desde, hasta, sel) ==
    LET f == filtrar_por_fecha(fc, desde, hasta)
    IN  IF sel # {} THEN {x \in f : Cuenta(x) \in sel} ELSE f

\* The totals of the auxiliar of account k, sin_total where
\* totales_cuentas_aux has no row for it.
AuxOrElse(tot, k, f, sin_total) ==
    LET m == {t \in tot : Cuenta(t) = k}
    IN  IF m = {} THEN sin_total ELSE (CHOOSE t \in m : TRUE)[f]

\* Variant: an account without totals gets 0.
AuxOf_cero(tot, k, f) == AuxOrElse(tot, k, f, 0)

\* The merge of one account's summary with totales_cuentas_aux (how="left"):
\* the account's totals, NaN where totales_cuentas_aux has no row for it.
AuxOf(tot, k, f) == AuxOrElse(tot, k, f, NaN)

\* Variant: the net balance minus the saldo final of the auxiliar.
diferencia_invertida(saldo_final, saldo_neto) ==
    IF saldo_final = NaN THEN NaN ELSE saldo_neto - saldo_final

\* diferencia_vs_auxiliar of one row: saldo final of the auxiliar minus the
\* net balance, NaN when the former is.
diferencia_vs_auxiliar(saldo_final, saldo_neto) ==
    IF saldo_final = NaN THEN NaN ELSE saldo_final - saldo_neto

\* The rows of resumen_cuenta for the accounts keys: the groupby figures of
\* the account's invoices in dfc, joined with its totals of the auxiliar.
resumen_rows(dfc, tot, keys) ==
    {LET g == {x \in dfc : Cuenta(x) = k}
         neto == SumCol(g, "saldo_factura")
     IN  [account_code |-> k[1],
          account_name |-> k[2],
          facturas_positivas |-> Cardinality({x \in g : x.saldo_factura > 0}),
          saldo_positivas |-> SumCol({x \in g : x.saldo_factura > 0}, "saldo_factura"),
          referencias_negativas |-> Cardinality({x \in g : x.saldo_factura < 0}),
          saldo_negativas |-> SumCol({x \in g : x.saldo_factura < 0}, "saldo_factura"),
          saldo_neto |-> neto,
          cargos_total_cuenta_aux |-> AuxOf(tot, k, "cargos_total_cuenta_aux"),
          abonos_total_cuenta_aux |-> AuxOf(tot, k, "abonos_total_cuenta_aux"),
          saldo_final_cuenta_aux |-> AuxOf(tot, k, "saldo_final_cuenta_aux"),
          diferencia_vs_auxiliar |->
              diferencia_vs_auxiliar(AuxOf(tot, k, "saldo_final_cuenta_aux"), neto)]
     : k \in keys}

\* Variant: merge how="inner", only the accounts that have totals.
build_resumen_cuenta_inner(dfc, tot) ==
    resumen_rows(dfc, tot, {Cuenta(x) : x \in dfc} \cap {Cuenta(t) : t \in tot})

\* Variant: merge how="outer", also the accounts that only have totals.
build_resumen_cuenta_outer(dfc, tot) ==
    resumen_rows(dfc, tot, {Cuenta(x) : x \in dfc} \cup {Cuenta(t) : t \in tot})

\* resumen_cuenta: one row per account of df_cuenta_all, joined (how="left")
\* with the account's totals of the auxiliar.
build_resumen_cuenta(dfc, tot) ==
    resumen_rows(dfc, tot, {Cuenta(x) : x \in dfc})

\* facturas_global_pend: the global invoices with a balance still pending.
build_facturas_global_pend(fg) == {f \in fg : f.saldo_factura > 0}

\* df_tab3: cross-account invoices still pending, inside the date range.
build_df_tab3(fg, desde, hasta) ==
    {f \in filtrar_por_fecha(build_facturas_global_pend(fg), desde, hasta) :
        f.cruza_cuentas}

\* Variant: balances in favour (net balance below 0) count as paid too.
build_df_tab4_a_favor(fg, desde, hasta) ==
    {f \in filtrar_por_fecha(fg, desde, hasta) :
        f.cruza_cuentas /\ f.saldo_factura <= 0}

\* df_tab4: cross-account invoices whose net balance is 0, inside the range.
build_df_tab4(fg, desde, hasta) ==
    {f \in filtrar_por_fecha(fg, desde, hasta) :
        f.cruza_cuentas /\ f.saldo_factura = 0}

\* min_date / max_date of all_fechas: over both invoice tables, NaT dropped.
all_fechas(fg, fc) == ({f.fecha_factura : f \in fg} \cup {f.fecha_factura : f \in fc}) \ {NaT}

min_date(fg, fc) ==
    LET ds == all_fechas(fg, fc)
    IN  IF ds = {} THEN NaT ELSE CHOOSE d \in ds : \A e \in ds : d <= e

max_date(fg, fc) ==
    LET ds == all_fechas(fg, fc)
    IN  IF ds = {} THEN NaT ELSE CHOOSE d \in ds : \A e \in ds : d >= e

\* The value a date_input starts with: the bound of the data, None when the
\* data has no date.
DateOrNone(d) == IF d = NaT THEN None ELSE d

-----------------------------------------------------------------------------
(* State.                                                                   *)

VARIABLES
    raw,                 \* the grid of the file being prepared / uploaded
    uploaded,            \* uploaded_file is not None
    movs_valid,          \* procesar_movimientos: movements with a reference
    resumen_aux,         \* procesar_movimientos: resumen_auxiliar
    totales_cuentas_aux, \* procesar_movimientos: totals per account
    facturas_global,     \* construir_facturas_global(movs_valid)
    facturas_cuenta,     \* construir_facturas_por_cuenta(movs_valid)
    fecha_desde,         \* date_input "Fecha desde"
    fecha_hasta,         \* date_input "Fecha hasta"
    cuentas_sel_cuenta   \* multiselect "Cuenta contable"

vars == <<raw, uploaded, movs_valid, resumen_aux, totales_cuentas_aux,
          facturas_global, facturas_cuenta, fecha_desde, fecha_hasta,
          cuentas_sel_cuenta>>

results == <<movs_valid, resumen_aux, totales_cuentas_aux, facturas_global,
             facturas_cuenta, fecha_desde, fecha_hasta, cuentas_sel_cuenta>>

\* The views of the current run of the script.
df_cuenta_all ==
    build_df_cuenta_all(facturas_cuenta, fecha_desde, fecha_hasta, cuentas_sel_cuenta)

resumen_cuenta ==
    IF df_cuenta_all = {} THEN {}
    ELSE build_resumen_cuenta(df_cuenta_all, totales_cuentas_aux)

\* cols_resumen: the columns of resumen_cuenta that the table shows.
cols_resumen ==
    {"account_code", "account_name", "facturas_positivas", "referencias_negativas",
     "saldo_neto", "cargos_total_cuenta_aux", "abonos_total_cuenta_aux",
     "saldo_final_cuenta_aux", "diferencia_vs_auxiliar"}

\* "Resumen por cuenta contable": resumen_cuenta[cols_resumen].
tabla_resumen == {[c \in cols_resumen |-> r[c]] : r \in resumen_cuenta}

facturas_global_filtradas ==
    filtrar_por_fecha(facturas_global, fecha_desde, fecha_hasta)

df_tab3 == build_df_tab3(facturas_global, fecha_desde, fecha_hasta)

df_tab4 == build_df_tab4(facturas_global, fecha_desde, fecha_hasta)

\* The global metrics of "Resumen global vs auxiliar": the value shown, None
\* for "N/D".
saldo_final_cartera == resumen_aux.saldo_final_aux

diferencia_global ==
    IF resumen_aux.saldo_final_aux # None
    THEN resumen_aux.saldo_final_aux - resumen_aux.saldo_neto_movs
    ELSE None

-----------------------------------------------------------------------------
(* The grids explored: cells a row of each kind may hold.                   *)

Cuentas == {<<CodeA, NameA>>, <<CodeB, NameB>>}

\* <<fecha, referencia, cargos, abonos>> of the movement rows: debits and
\* credits of two references, at two dates and at a date that does not parse,
\* an amount that is no number, a row without reference.
Movimientos ==
    {<<D1, "100", "300", "0">>,
     <<D2, "100", "500", "0">>,
     <<D1, "100", "0", "300">>,
     <<D2, "100", "0", "300">>,
     <<DX, "100", "0", "300">>,
     <<D2, "200", "500", "0">>,
     <<D1, "100", "x", "300">>,
     <<D1, NA, "300", "0">>}

\* The movement rows of the grids on which the views are explored under
\* every filter.
MovimientosVistas ==
    {<<D1, "100", "300", "0">>,
     <<D2, "100", "0", "300">>,
     <<DX, "100", "0", "300">>,
     <<D2, "200", "500", "0">>}

\* The movement rows of the grids on which the reference clean-up is
\* explored: a bare number and the same number under a prefix, a reference
\* with a leading "F-", the same number bare and padded, a blank cell.
MovimientosReferencias ==
    {<<D1, "NCTA123", "500", "0">>,
     <<D2, "123", "0", "300">>,
     <<D1, "F-100", "500", "0">>,
     <<D2, "100", "0", "300">>,
     <<D1, " 100 ", "300", "0">>,
     <<D1, "  ", "300", "0">>}

\* The movement rows of the grids on which the amounts are explored: a debit
\* that is no number, a credit cell left empty, both at once, and rows whose
\* amounts are numbers.
MovimientosImportes ==
    {<<D1, "100", "x", "300">>,
     <<D1, "100", "300", NA>>,
     <<D1, "200", NA, "x">>,
     <<D2, "100", "500", "0">>,
     <<D2, "200", "0", "300">>}

\* The rows with a code in column 0 of the grids on which the header
\* predicate is explored: a header row as exported; a code of three groups;
\* the phrase in capitals; the phrase in column 5 only; no phrase at all; a
\* header row whose name cell is empty.
Cabeceras ==
    {HeaderRow(CodeA, NameA),
     HeaderRow(CodeB, NA),
     HeaderRowEn(CodeCorto, NameC, 6, SaldoInicialText),
     HeaderRowEn(CodeB, NameB, 6, SaldoInicialMayus),
     HeaderRowEn(CodeB, NameD, 5, SaldoInicialText),
     HeaderRowEn(CodeB, NameE, 6, NA)}

\* The movement rows of the grids on which the movement predicate is
\* explored, by the date cell: as exported, with a 1-digit day, with '-',
\* with the month in capitals, of a day the month does not have, of a month
\* that is none.
MovimientosFechas ==
    {<<D1, "100", "300", "0">>,
     <<D1Corto, "100", "300", "0">>,
     <<D1Guion, "100", "300", "0">>,
     <<D1Mayus, "100", "300", "0">>,
     <<DFeb31, "100", "300", "0">>,
     <<DX, "100", "300", "0">>}

NumMovs(grid) == Cardinality({i \in 1..Len(grid) : is_date_row(grid[i])})

Init ==
    /\ raw = <<>>
    /\ uploaded = FALSE
    /\ movs_valid = <<>>
    /\ resumen_aux = build_resumen_auxiliar(<<>>, <<>>)
    /\ totales_cuentas_aux = {}
    /\ facturas_global = {}
    /\ facturas_cuenta = {}
    /\ fecha_desde = None
    /\ fecha_hasta = None
    /\ cuentas_sel_cuenta = {}

\* The export gains an account-header row.
AddHeaderRow ==
    /\ ~uploaded /\ Len(raw) < MaxRows
    /\ \E k \in Cuentas : raw' = Append(raw, HeaderRow(k[1], k[2]))
    /\ UNCHANGED <<uploaded, results>>

\* The export gains a movement row, one of the rows of movimientos.
AddMovementRowOf(movimientos) ==
    /\ ~uploaded /\ Len(raw) < MaxRows /\ NumMovs(raw) < MaxMovs
    /\ \E m \in movimientos : raw' = Append(raw, MovementRow(m[1], m[2], m[3], m[4]))
    /\ UNCHANGED <<uploaded, results>>

AddMovementRow == AddMovementRowOf(Movimientos)

AddMovementRowVistas == AddMovementRowOf(MovimientosVistas)

AddMovementRowReferencias == AddMovementRowOf(MovimientosReferencias)

AddMovementRowImportes == AddMovementRowOf(MovimientosImportes)

AddMovementRowFechas == AddMovementRowOf(MovimientosFechas)

\* The export gains a row with a code in column 0, one of Cabeceras.
AddHeaderRowCabeceras ==
    /\ ~uploaded /\ Len(raw) < MaxRows
    /\ \E h \in Cabeceras : raw' = Append(raw, h)
    /\ UNCHANGED <<uploaded, results>>

\* The export gains a movement row of reference "100".
AddMovementRowCabeceras == AddMovementRowOf({<<D1, "100", "300", "0">>})

\* The export gains a 'Total:' row.
AddTotalRow ==
    /\ ~uploaded /\ Len(raw) < MaxRows
    /\ raw' = Append(raw, TotalRow("500", "0", "1000"))
    /\ UNCHANGED <<uploaded, results>>

\* The export gains a 'Total:' row, with numbers or with a final balance that
\* is no number.
AddTotalRowTotales ==
    /\ ~uploaded /\ Len(raw) < MaxRows
    /\ \E t \in {TotalRow("500", "0", "1000"), TotalRow("300", "300", "x")} :
          raw' = Append(raw, t)
    /\ UNCHANGED <<uploaded, results>>

\* The export gains a 'Total Clientes :' row.
AddTotalClientesRow ==
    /\ ~uploaded /\ Len(raw) < MaxRows
    /\ raw' = Append(raw, TotalClientesRow("500", "0", "1000"))
    /\ UNCHANGED <<uploaded, results>>

\* The file is uploaded: the script runs procesar_movimientos and both
\* construir_facturas_*, and the widgets start at their defaults.
Upload ==
    /\ ~uploaded /\ Len(raw) >= 1
    /\ uploaded' = TRUE
    /\ raw' = raw
    /\ movs_valid' = valid_movs(raw)
    /\ resumen_aux' = build_resumen_auxiliar(raw, valid_movs(raw))
    /\ totales_cuentas_aux' = build_totales_cuentas_aux(raw)
    /\ facturas_global' = construir_facturas_global(valid_movs(raw))
    /\ facturas_cuenta' = construir_facturas_por_cuenta(valid_movs(raw))
    /\ fecha_desde' = DateOrNone(min_date(facturas_global', facturas_cuenta'))
    /\ fecha_hasta' = DateOrNone(max_date(facturas_global', facturas_cuenta'))
    /\ cuentas_sel_cuenta' = {}

\* The filters are shown when the file has some invoice.
FiltersShown == uploaded /\ ~(facturas_global = {} /\ facturas_cuenta = {})

\* The dates a date_input offers: min_date..max_date of the data; any date
\* when the data has none.
DateChoices ==
    IF min_date(facturas_global, facturas_cuenta) = NaT
    THEN {parse_spanish_date(D1), parse_spanish_date(D2)}
    ELSE min_date(facturas_global, facturas_cuenta)
         .. max_date(facturas_global, facturas_cuenta)

\* A multiselect whose options no longer hold its selection goes back to its
\* default, the empty selection.
KeepSelection(sel, options) == IF sel \subseteq options THEN sel ELSE {}

\* The user picks "Fecha desde"; the script reruns.
SetFechaDesde ==
    /\ FiltersShown
    /\ \E d \in DateChoices : d # fecha_desde /\ fecha_desde' = d
    /\ cuentas_sel_cuenta' =
           KeepSelection(cuentas_sel_cuenta,
                         cuentas_cuenta(facturas_cuenta, fecha_desde', fecha_hasta))
    /\ UNCHANGED <<raw, uploaded, movs_valid, resumen_aux, totales_cuentas_aux,
                   facturas_global, facturas_cuenta, fecha_hasta>>

\* The user picks "Fecha hasta"; the script reruns.
SetFechaHasta ==
    /\ FiltersShown
    /\ \E h \in DateChoices : h # fecha_hasta /\ fecha_hasta' = h
    /\ cuentas_sel_cuenta' =
           KeepSelection(cuentas_sel_cuenta,
                         cuentas_cuenta(facturas_cuenta, fecha_desde, fecha_hasta'))
    /\ UNCHANGED <<raw, uploaded, movs_valid, resumen_aux, totales_cuentas_aux,
                   facturas_global, facturas_cuenta, fecha_desde>>

\* The user changes the selection of "Cuenta contable"; the script reruns.
SelectCuentas ==
    /\ FiltersShown
    /\ \E sel \in SUBSET cuentas_cuenta(facturas_cuenta, fecha_desde, fecha_hasta) :
          sel # cuentas_sel_cuenta /\ cuentas_sel_cuenta' = sel
    /\ UNCHANGED <<raw, uploaded, movs_valid, resumen_aux, totales_cuentas_aux,
                   facturas_global, facturas_cuenta, fecha_desde, fecha_hasta>>

Next ==
    \/ AddHeaderRow
    \/ AddMovementRow
    \/ AddTotalRow
    \/ AddTotalClientesRow
    \/ Upload
    \/ SetFechaDesde
    \/ SetFechaHasta
    \/ SelectCuentas

Spec == Init /\ [][Next]_vars

NextVistas ==
    \/ AddHeaderRow
    \/ AddMovementRowVistas
    \/ AddTotalRow
    \/ AddTotalClientesRow
    \/ Upload
    \/ SetFechaDesde
    \/ SetFechaHasta
    \/ SelectCuentas

SpecVistas == Init /\ [][NextVistas]_vars

\* Files whose movement rows are those of MovimientosReferencias.
NextReferencias ==
    \/ AddHeaderRow
    \/ AddMovementRowReferencias
    \/ Upload

SpecReferencias == Init /\ [][NextReferencias]_vars

\* Files whose rows with a code are those of Cabeceras.
NextCabeceras ==
    \/ AddHeaderRowCabeceras
    \/ AddMovementRowCabeceras
    \/ Upload

SpecCabeceras == Init /\ [][NextCabeceras]_vars

\* Files whose movement rows are those of MovimientosFechas.
NextFechas ==
    \/ AddHeaderRow
    \/ AddMovementRowFechas
    \/ Upload

SpecFechas == Init /\ [][NextFechas]_vars

\* Files of header rows and 'Total:' rows.
NextTotales ==
    \/ AddHeaderRow
    \/ AddTotalRowTotales
    \/ Upload

SpecTotales == Init /\ [][NextTotales]_vars

\* Files whose movement rows are those of MovimientosImportes.
NextImportes ==
    \/ AddHeaderRow
    \/ AddMovementRowImportes
    \/ AddTotalClientesRow
    \/ Upload

SpecImportes == Init /\ [][NextImportes]_vars

-----------------------------------------------------------------------------
(* Properties.  They read the grid and the tables directly.                 *)

\* The header rows above row i of the uploaded grid.
HeadersAbove(i) == {j \in 1..(i - 1) : is_account_header(raw[j])}

\* The last header row above row i (0 when there is none).
LastHeader(i) ==
    IF HeadersAbove(i) = {} THEN 0
    ELSE CHOOSE j \in HeadersAbove(i) : \A h \in HeadersAbove(i) : h <= j

\* The accounts (code, name) that a header row of the grid opens.
CuentasDelArchivo ==
    {<<raw[j][0], raw[j][1]>> : j \in {i \in 1..Len(raw) : is_account_header(raw[i])}}

\* The per-account invoices of one reference.
FacturasCuentaDe(r) == {f \in facturas_cuenta : f.referencia = r}

\* C1. Aggregation conservation: the net balance of every global invoice is
\* the sum of the net balances of the per-account invoices of its reference.
C1_AggregationConservation ==
    uploaded =>
        \A g \in facturas_global :
            g.saldo_factura = SumCol(FacturasCuentaDe(g.referencia), "saldo_factura")

\* C2. Context propagation: every movement of movs_valid lies below a header
\* row and carries the code and name of the last header row above it; a
\* movement row above the first header row is not in movs_valid.
C2_ContextPropagation ==
    uploaded =>
        \A i \in DOMAIN movs_valid :
            LET h == LastHeader(movs_valid[i].fila)
            IN  /\ h # 0
                /\ movs_valid[i].account_code = raw[h][0]
                /\ movs_valid[i].account_name = raw[h][1]

\* The date filter stands at the full range of the data.
FullRange ==
    /\ fecha_desde = DateOrNone(min_date(facturas_global, facturas_cuenta))
    /\ fecha_hasta = DateOrNone(max_date(facturas_global, facturas_cuenta))

\* Every movement of movs_valid lies below a header row.
TodosConCuenta ==
    \A i \in DOMAIN movs_valid : LastHeader(movs_valid[i].fila) # 0

\* C3. Round trip of the date filter: with the bounds at the minimum and the
\* maximum date of the data, both filtered tables are the unfiltered ones
\* (stated for the files all of whose movements lie below a header row).
C3_FullRangeRoundTrip ==
    (uploaded /\ TodosConCuenta /\ FullRange) =>
        /\ filtrar_por_fecha(facturas_global, fecha_desde, fecha_hasta) = facturas_global
        /\ filtrar_por_fecha(facturas_cuenta, fecha_desde, fecha_hasta) = facturas_cuenta

\* The movements of movs_valid with reference r.
MovsDe(r) == {i \in DOMAIN movs_valid : movs_valid[i].referencia = r}

\* The movements of r lie in exactly two accounts.
EnDosCuentas(r) ==
    /\ \A i \in MovsDe(r) : movs_valid[i].account_code # NA
    /\ Cardinality({movs_valid[i].account_code : i \in MovsDe(r)}) = 2

\* Every movement of r is a positive debit without credit.
SoloCargos(r) ==
    \A i \in MovsDe(r) : movs_valid[i].cargos > 0 /\ movs_valid[i].abonos = 0

\* r has exactly two movements: a debit in one account and a credit of the
\* same amount in another.
UnCargoUnAbono(r) ==
    \E i, j \in MovsDe(r) :
        /\ MovsDe(r) = {i, j}
        /\ movs_valid[i].account_code # NA /\ movs_valid[j].account_code # NA
        /\ movs_valid[i].account_code # movs_valid[j].account_code
        /\ movs_valid[i].cargos > 0 /\ movs_valid[i].abonos = 0
        /\ movs_valid[j].cargos = 0 /\ movs_valid[j].abonos = movs_valid[i].cargos

\* The invoice f is dated inside the bounds that are set.
EnRango(f) ==
    /\ fecha_desde # None => (f.fecha_factura # NaT /\ fecha_desde <= f.fecha_factura)
    /\ fecha_hasta # None => (f.fecha_factura # NaT /\ f.fecha_factura <= fecha_hasta)

\* C4. Cross-account detection precision: a reference with positive debits
\* only, in two accounts, is in neither cross-account view; a reference with
\* one debit in an account and one credit (of that amount) in another is
\* flagged, with net balance 0 and two accounts.
C4_CrossAccountPrecision ==
    uploaded =>
        \A g \in facturas_global :
            /\ (EnDosCuentas(g.referencia) /\ SoloCargos(g.referencia))
                   => (g \notin df_tab3 /\ g \notin df_tab4)
            /\ UnCargoUnAbono(g.referencia)
                   => (g.cruza_cuentas /\ g.saldo_factura = 0 /\ g.num_cuentas = 2)

\* C4 as amended. A reference in two accounts is flagged whatever the sign of
\* its movements: with positive debits only it is flagged and, dated inside
\* the range, listed among the cross-account pending invoices; with one debit
\* and one credit of that amount in another account it is flagged, with net
\* balance 0 and two accounts, and, dated inside the range, listed among the
\* cross-account paid invoices.
C4_CrossAccountByCount ==
    uploaded =>
        \A g \in facturas_global :
            /\ (EnDosCuentas(g.referencia) /\ SoloCargos(g.referencia))
                   => /\ g.cruza_cuentas /\ g.num_cuentas = 2
                      /\ EnRango(g) => g \in df_tab3
                      /\ g \notin df_tab4
            /\ UnCargoUnAbono(g.referencia)
                   => /\ g.cruza_cuentas /\ g.saldo_factura = 0 /\ g.num_cuentas = 2
                      /\ EnRango(g) => g \in df_tab4
                      /\ g \notin df_tab3

\* C4 witness: a debits-only reference of two accounts is listed among the
\* cross-account pending invoices.
C4_Witness ==
    /\ uploaded
    /\ \E g \in df_tab3 : EnDosCuentas(g.referencia) /\ SoloCargos(g.referencia)

\* The 'Total:' rows of the grid that lie below a header row of account k.
TotalRowsDe(k) ==
    {i \in 1..Len(raw) :
        /\ str_strip(raw[i][4]) = TotalText
        /\ LastHeader(i) # 0
        /\ <<raw[LastHeader(i)][0], raw[LastHeader(i)][1]>> = k}

\* The control total of account k read from column c of its 'Total:' rows;
\* NaN when the account has no such row.
ControlTotal(k, c) ==
    IF TotalRowsDe(k) = {} THEN NaN
    ELSE SumNa([i \in 1..Len(raw) |-> to_numeric(raw[i][c])], TotalRowsDe(k))

\* The per-account invoices inside the date bounds, of the selected accounts
\* when some are selected.
FacturasEnVentana ==
    {f \in facturas_cuenta :
        EnRango(f) /\ (cuentas_sel_cuenta = {} \/ Cuenta(f) \in cuentas_sel_cuenta)}

\* The net balance of account k over all its invoices, no date bound applied.
SaldoNetoSinFiltro(k) ==
    SumCol({f \in facturas_cuenta : Cuenta(f) = k}, "saldo_factura")

\* C5. In every row of the reconciliation table, whatever the date bounds and
\* the selection, the three control totals are those of the account's
\* 'Total:' rows in the whole grid, and diferencia_vs_auxiliar is the final
\* balance among them minus saldo_neto; a rerun of the script keeps the
\* control totals of every account shown before and after it.
C5_DiferenciaVsAuxiliar ==
    /\ [](\A r \in tabla_resumen :
            /\ r.cargos_total_cuenta_aux = ControlTotal(Cuenta(r), 5)
            /\ r.abonos_total_cuenta_aux = ControlTotal(Cuenta(r), 6)
            /\ r.saldo_final_cuenta_aux = ControlTotal(Cuenta(r), 7)
            /\ r.diferencia_vs_auxiliar =
                   IF ControlTotal(Cuenta(r), 7) = NaN THEN NaN
                   ELSE ControlTotal(Cuenta(r), 7) - r.saldo_neto)
    /\ [][\A r \in tabla_resumen : \A q \in tabla_resumen' :
            Cuenta(r) = Cuenta(q) =>
                /\ q.cargos_total_cuenta_aux = r.cargos_total_cuenta_aux
                /\ q.abonos_total_cuenta_aux = r.abonos_total_cuenta_aux
                /\ q.saldo_final_cuenta_aux = r.saldo_final_cuenta_aux]_vars

\* C5 witness: the date bounds leave out an invoice of an account that has a
\* 'Total:' row, so that its row shows another saldo_neto than without them.
C5_Witness ==
    \E r \in tabla_resumen :
        /\ TotalRowsDe(Cuenta(r)) # {}
        /\ r.saldo_neto # SaldoNetoSinFiltro(Cuenta(r))
        /\ r.diferencia_vs_auxiliar # NaN

\* The grid has no 'Total Clientes :' row.
SinTotalClientes ==
    \A i \in 1..Len(raw) : str_strip(raw[i][0]) # TotalClientesText

\* The grid with a row put after its first p rows.
InsertAt(grid, p, row) ==
    SubSeq(grid, 1, p) \o <<row>> \o SubSeq(grid, p + 1, Len(grid))

\* C6. Without a 'Total Clientes :' row the reported final balance, the
\* global difference and the implied opening balance are None (not 0), and
\* the per-account invoices, the per-account totals and the reconciliation
\* table are those of the same grid with such a row put anywhere in it.
C6_SinTotalClientes ==
    (uploaded /\ SinTotalClientes) =>
        /\ saldo_final_cartera = None /\ saldo_final_cartera # 0
        /\ diferencia_global = None /\ diferencia_global # 0
        /\ resumen_aux.saldo_inicial_implicito = None
        /\ resumen_aux.saldo_inicial_implicito # 0
        /\ \A p \in 0..Len(raw) :
              LET con == InsertAt(raw, p, TotalClientesRow("500", "0", "1000"))
                  fc == construir_facturas_por_cuenta(valid_movs(con))
                  tot == build_totales_cuentas_aux(con)
                  dfc == build_df_cuenta_all(fc, fecha_desde, fecha_hasta,
                                             cuentas_sel_cuenta)
              IN  /\ fc = facturas_cuenta
                  /\ tot = totales_cuentas_aux
                  /\ (IF dfc = {} THEN {} ELSE build_resumen_cuenta(dfc, tot))
                         = resumen_cuenta

\* C6 witness: a file without 'Total Clientes :' row whose reconciliation
\* table has a row with a control total.
C6_Witness ==
    /\ uploaded /\ SinTotalClientes
    /\ \E r \in tabla_resumen : r.saldo_final_cuenta_aux # NaN

\* C7. An account with invoices in the window but no 'Total:' row has no row
\* in the reconciliation table; the accounts with invoices in the window and
\* a 'Total:' row have theirs.
C7_SinTotalExcluida ==
    uploaded =>
        /\ \A r \in tabla_resumen : TotalRowsDe(Cuenta(r)) # {}
        /\ \A f \in FacturasEnVentana :
              TotalRowsDe(Cuenta(f)) # {}
                  => \E r \in tabla_resumen : Cuenta(r) = Cuenta(f)

\* C7 as amended. An account with invoices in the window but no 'Total:' row
\* still has its row in the reconciliation table, with the three control
\* totals and diferencia_vs_auxiliar null; every other account with invoices
\* in the window has its row with the control totals of its 'Total:' rows.
C7_SinTotalIncluida ==
    uploaded =>
        \A f \in FacturasEnVentana :
            /\ Cardinality({r \in tabla_resumen : Cuenta(r) = Cuenta(f)}) = 1
            /\ \A r \in tabla_resumen :
                  Cuenta(r) = Cuenta(f) =>
                      IF TotalRowsDe(Cuenta(f)) = {}
                      THEN /\ r.cargos_total_cuenta_aux = NaN
                           /\ r.abonos_total_cuenta_aux = NaN
                           /\ r.saldo_final_cuenta_aux = NaN
                           /\ r.diferencia_vs_auxiliar = NaN
                      ELSE r.saldo_final_cuenta_aux = ControlTotal(Cuenta(f), 7)

\* C7 witness: the table shows an account without 'Total:' row next to an
\* account with one.
C7_Witness ==
    /\ uploaded
    /\ \E r \in tabla_resumen : TotalRowsDe(Cuenta(r)) = {}
    /\ \E r \in tabla_resumen : TotalRowsDe(Cuenta(r)) # {}

\* The movements of r with a positive debit, and those among them with the
\* largest one.
CargosPositivos(r) == {i \in MovsDe(r) : movs_valid[i].cargos > 0}

MayorCargo(r) ==
    {i \in CargosPositivos(r) :
        \A j \in CargosPositivos(r) : movs_valid[j].cargos <= movs_valid[i].cargos}

\* The chronologically earliest movements of r, dated movements before the
\* movements without date.
MasAntiguos(r) ==
    LET dated == {i \in MovsDe(r) : movs_valid[i].fecha # NaT}
    IN  IF dated = {} THEN MovsDe(r)
        ELSE {i \in dated : \A j \in dated : movs_valid[i].fecha <= movs_valid[j].fecha}

\* The primary account of g is the account of one of the movements ms.
PrincipalEntre(g, ms) ==
    \E i \in ms : Cuenta(g) = <<movs_valid[i].account_code, movs_valid[i].account_name>>

\* C8. Primary account: every reference has one global invoice, its primary
\* account is an account of the file, and it is the account of a movement
\* with the largest positive debit of the reference, or, when the reference
\* has no positive debit, of its chronologically earliest movement.
C8_PrimaryAccount ==
    uploaded =>
        \A g \in facturas_global :
            /\ \A q \in facturas_global : q.referencia = g.referencia => q = g
            /\ Cuenta(g) \in CuentasDelArchivo
            /\ IF CargosPositivos(g.referencia) # {}
               THEN PrincipalEntre(g, MayorCargo(g.referencia))
               ELSE PrincipalEntre(g, MasAntiguos(g.referencia))

\* The four classifications of a reconciliation row.
Clasificaciones ==
    {"integrity error", "reconciled", "balance-only-from-opening",
     "unexplained-difference"}

\* C9. Classification exhaustiveness: every row of the reconciliation table
\* carries one of the four classifications.
C9_ClassificationExhaustive ==
    \A r \in tabla_resumen :
        /\ "clasificacion" \in DOMAIN r
        /\ r["clasificacion"] \in Clasificaciones

\* C9 as amended. No row of the reconciliation table carries a
\* classification: a row holds the columns of cols_resumen and nothing else,
\* its saldo_neto is a number, and its diferencia_vs_auxiliar is null exactly
\* when the account has no 'Total:' row.
C9_SinClasificacion ==
    \A r \in tabla_resumen :
        /\ DOMAIN r = cols_resumen
        /\ "clasificacion" \notin DOMAIN r
        /\ r.saldo_neto # NaN
        /\ r.diferencia_vs_auxiliar = NaN <=> TotalRowsDe(Cuenta(r)) = {}

\* C9 witness: the table shows a row with a difference and a row without.
C9_Witness ==
    /\ \E r \in tabla_resumen : r.diferencia_vs_auxiliar = NaN
    /\ \E r \in tabla_resumen : r.diferencia_vs_auxiliar # NaN

\* Account k has a final balance of 1000 in its 'Total:' row and no invoice
\* in the window.
SoloSaldoAuxiliar(k) ==
    /\ ControlTotal(k, 7) = 1000
    /\ \A f \in FacturasEnVentana : Cuenta(f) # k

\* C10. An account with a final balance of 1000 in its 'Total:' row and no
\* invoice in the window has a row in the reconciliation table, with
\* saldo_neto 0 and the classification balance-only-from-opening.
C10_SoloSaldoAuxiliarListada ==
    uploaded =>
        \A k \in CuentasDelArchivo :
            SoloSaldoAuxiliar(k) =>
                \E r \in tabla_resumen :
                    /\ Cuenta(r) = k
                    /\ r.saldo_neto = 0
                    /\ "clasificacion" \in DOMAIN r
                    /\ r["clasificacion"] = "balance-only-from-opening"

\* C10 as amended. An account with a final balance of 1000 in its 'Total:'
\* row and no invoice in the window has no row in the reconciliation table:
\* the table has rows only for accounts with an invoice in the window.
C10_SoloSaldoAuxiliarAusente ==
    uploaded =>
        /\ \A k \in CuentasDelArchivo :
              SoloSaldoAuxiliar(k) => \A r \in tabla_resumen : Cuenta(r) # k
        /\ \A r \in tabla_resumen : \E f \in FacturasEnVentana : Cuenta(f) = Cuenta(r)

\* C10 witness: the table is shown, and an account of the file with a final
\* balance of 1000 has no invoice in the window.
C10_Witness ==
    /\ uploaded
    /\ tabla_resumen # {}
    /\ \E k \in CuentasDelArchivo : SoloSaldoAuxiliar(k)

-----------------------------------------------------------------------------
(* References.                                                              *)

\* The movement rows of the uploaded grid whose reference cell, trimmed, is t.
FilasConReferencia(t) ==
    {i \in 1..Len(raw) : is_date_row(raw[i]) /\ str_strip(raw[i][4]) = t}

\* Debits minus credits of the rows of the grid in fs.
NetoDeFilas(fs) ==
    SumNa([i \in 1..Len(raw) |-> to_numeric(raw[i][5])], fs)
    - SumNa([i \in 1..Len(raw) |-> to_numeric(raw[i][6])], fs)

\* The file has movements tagged '123' and movements tagged 'NCTA123'.
ConNumeroYPrefijo ==
    FilasConReferencia("123") # {} /\ FilasConReferencia("NCTA123") # {}

\* C11 as stated. Alias resolution: with movements tagged '123' and
\* 'NCTA123', both make one global invoice keyed 'NCTA123' that holds the
\* movements of both, and no invoice, global or per account, is keyed '123'.
C11_AliasResolution ==
    (uploaded /\ ConNumeroYPrefijo) =>
        /\ \A g \in facturas_global : g.referencia # "123"
        /\ \A f \in facturas_cuenta : f.referencia # "123"
        /\ \E g \in facturas_global :
              /\ g.referencia = "NCTA123"
              /\ g.saldo_factura =
                     NetoDeFilas(FilasConReferencia("123")
                                 \cup FilasConReferencia("NCTA123"))

\* C11 as amended. No alias resolution: every global invoice is keyed by a
\* trimmed reference cell of the file and holds exactly the movements whose
\* trimmed cell is that key; with movements tagged '123' and 'NCTA123' there
\* are two global invoices, keyed '123' and 'NCTA123', and every account with
\* a movement tagged '123' has a per-account invoice keyed '123'.
C11_SinAlias ==
    uploaded =>
        /\ \A g \in facturas_global :
              /\ FilasConReferencia(g.referencia) # {}
              /\ g.saldo_factura = NetoDeFilas(FilasConReferencia(g.referencia))
        /\ ConNumeroYPrefijo =>
              /\ \E g \in facturas_global : g.referencia = "123"
              /\ \E g \in facturas_global : g.referencia = "NCTA123"
              /\ \A i \in FilasConReferencia("123") :
                    LastHeader(i) # 0 =>
                        \E f \in facturas_cuenta :
                            /\ f.referencia = "123"
                            /\ f.account_code = raw[LastHeader(i)][0]

C11_Witness ==
    /\ uploaded
    /\ ConNumeroYPrefijo
    /\ \E i \in FilasConReferencia("123") : LastHeader(i) # 0
    /\ \E g \in facturas_global : g.referencia = "NCTA123" /\ g.saldo_factura = 500

\* The join key of the movement row i of the grid.
ClaveDeFila(i) == clean_referencia(raw[i][4])

\* The movements of movs_valid that come from row i of the grid.
MovsDeFila(i) == {j \in DOMAIN movs_valid : movs_valid[j].fila = i}

\* C12 as stated. Idempotence of the reference clean-up: the join key of
\* every movement row is a fixed point of the clean-up, and the rows with
\* reference 'F-100' and with reference '100' have the join key '100'.
C12_NormalizationIdempotent ==
    uploaded =>
        \A i \in {j \in 1..Len(raw) : is_date_row(raw[j])} :
            /\ clean_referencia(ClaveDeFila(i)) = ClaveDeFila(i)
            /\ raw[i][4] \in {"F-100", "100"} =>
                  \E j \in MovsDeFila(i) : movs_valid[j].referencia = "100"

\* C12 as amended. The join key a movement row carries in movs_valid is a
\* fixed point of the clean-up (a row whose key is missing is not in
\* movs_valid); a reference '100', bare or padded with blanks, has the join
\* key '100', and a reference 'F-100' keeps the join key 'F-100'.
C12_IdempotentSinPrefijoF ==
    uploaded =>
        \A i \in {j \in 1..Len(raw) : is_date_row(raw[j])} :
            /\ \A j \in MovsDeFila(i) :
                  /\ movs_valid[j].referencia # NA
                  /\ clean_referencia(movs_valid[j].referencia)
                         = movs_valid[j].referencia
            /\ raw[i][4] = "  " => MovsDeFila(i) = {}
            /\ raw[i][4] \in {"100", " 100 "} =>
                  \E j \in MovsDeFila(i) : movs_valid[j].referencia = "100"
            /\ raw[i][4] = "F-100" =>
                  \E j \in MovsDeFila(i) : movs_valid[j].referencia = "F-100"

C12_Witness ==
    /\ uploaded
    /\ \E i \in 1..Len(raw) : is_date_row(raw[i]) /\ raw[i][4] = "F-100"
    /\ \E i \in 1..Len(raw) : is_date_row(raw[i]) /\ raw[i][4] = " 100 "
    /\ \E j \in DOMAIN movs_valid : movs_valid[j].referencia = "F-100"

-----------------------------------------------------------------------------
(* The date window and the movements.                                       *)

\* A date lies inside the window of the filter.
FechaEnVentana(d) ==
    /\ fecha_desde # None => (d # NaT /\ fecha_desde <= d)
    /\ fecha_hasta # None => (d # NaT /\ d <= fecha_hasta)

\* The movements of movs_valid of account k, and those of reference r among
\* them.
MovsDeCuenta(k) ==
    {i \in DOMAIN movs_valid :
        <<movs_valid[i].account_code, movs_valid[i].account_name>> = k}

MovsDeCuentaRef(k, r) == {i \in MovsDeCuenta(k) : movs_valid[i].referencia = r}

\* Debits minus credits of the movements ms of movs_valid.
NetoDeMovs(ms) ==
    SumNa(Col(movs_valid, "cargos"), ms) - SumNa(Col(movs_valid, "abonos"), ms)

\* The earliest date among the movements ms, NaT when none has a date.
PrimeraFecha(ms) ==
    LET ds == {movs_valid[i].fecha : i \in ms} \ {NaT}
    IN  IF ds = {} THEN NaT ELSE CHOOSE d \in ds : \A e \in ds : d <= e

\* Net of account k over its movements dated inside the window.
NetoMovsEnVentana(k) ==
    NetoDeMovs({i \in MovsDeCuenta(k) : FechaEnVentana(movs_valid[i].fecha)})

\* Net of account k over all the movements of its references whose earliest
\* movement in the account is dated inside the window.
NetoFacturasEnVentana(k) ==
    NetoDeMovs({i \in MovsDeCuenta(k) :
        FechaEnVentana(PrimeraFecha(MovsDeCuentaRef(k, movs_valid[i].referencia)))})

C14_NullDateRetained ==
    uploaded =>
        /\ \A g \in facturas_global :
              /\ g.fecha_factura = PrimeraFecha(MovsDe(g.referencia))
              /\ (FullRange /\ g.fecha_factura = NaT)
                     => g \in facturas_global_filtradas
        /\ \A f \in facturas_cuenta :
              /\ f.fecha_factura = PrimeraFecha(MovsDeCuentaRef(Cuenta(f), f.referencia))
              /\ (FullRange /\ cuentas_sel_cuenta = {} /\ f.fecha_factura = NaT)
                     => f \in df_cuenta_all

-----------------------------------------------------------------------------
(* Amounts.                                                                 *)

\* The amount cells of row i of the grid that are empty or no number.
SinNumero(i) == {c \in {5, 6, 7} : to_numeric(raw[i][c]) = NaN}

\* x, with 0 in the place of a null amount.
CeroSiNulo(x) == IF x = NaN THEN 0 ELSE x

\* movs_valid with 0 in the place of every null amount.
MovsConCeros ==
    [i \in DOMAIN movs_valid |->
        [movs_valid[i] EXCEPT !.cargos = CeroSiNulo(@),
                              !.abonos = CeroSiNulo(@),
                              !.saldo = CeroSiNulo(@)]]

\* Every table and total of the upload is what the movements with 0 in the
\* place of the null amounts give.
ComoSiFueraCero ==
    /\ facturas_global = construir_facturas_global(MovsConCeros)
    /\ facturas_cuenta = construir_facturas_por_cuenta(MovsConCeros)
    /\ resumen_aux = build_resumen_auxiliar(raw, MovsConCeros)

\* C15 as stated. Lenient amount parsing: no amount of a movement is null, an
\* amount cell that is empty or no number being 0, and every table and total
\* is what the number 0 in that cell gives.
C15_LenientAmountsZero ==
    uploaded =>
        /\ \A i \in DOMAIN movs_valid :
              /\ movs_valid[i].cargos # NaN
              /\ movs_valid[i].abonos # NaN
              /\ movs_valid[i].saldo # NaN
        /\ ComoSiFueraCero

\* C15 as amended. An amount cell of a movement row that is empty or no
\* number becomes null, not 0; the sums skip the null amounts and a null debit
\* is no positive debit, so every invoice total, net balance, primary account
\* and total of the movements is what the number 0 in that cell gives.
C15_LenientAmountsNull ==
    uploaded =>
        /\ \A i \in DOMAIN movs_valid :
              LET f == movs_valid[i].fila
              IN  /\ movs_valid[i].cargos = NaN <=> 5 \in SinNumero(f)
                  /\ movs_valid[i].abonos = NaN <=> 6 \in SinNumero(f)
                  /\ movs_valid[i].saldo = NaN <=> 7 \in SinNumero(f)
        /\ ComoSiFueraCero

\* C15 witness: an invoice some, but not all, of whose debit cells are no
\* number, with a primary account.
C15_Witness ==
    /\ uploaded
    /\ \E g \in facturas_global :
          /\ g.account_code # NA
          /\ g.cargos_total > 0
          /\ \E i \in MovsDe(g.referencia) : movs_valid[i].cargos = NaN

-----------------------------------------------------------------------------
(* Global totals.                                                           *)

\* The 'Total Clientes :' rows of the grid with a number as final balance.
TotalClientesConSaldo ==
    {i \in 1..Len(raw) :
        str_strip(raw[i][0]) = TotalClientesText /\ to_numeric(raw[i][3]) # NaN}

-----------------------------------------------------------------------------
(* The row predicates.                                                      *)

\* The columns of a row that hold the phrase 'Saldo inicial', in any case.
ColumnasConFrase(row) ==
    {c \in 0..7 : row[c] \in {SaldoInicialText, "Saldo inicial", SaldoInicialMayus}}

\* Column 0 is a code of three or four groups of three digits and the phrase
\* occurs, in any case, in some column.
CabeceraAmplia(row) ==
    Len(code_text(row[0])) \in {3, 4} /\ ColumnasConFrase(row) # {}

\* Column 0 is a code of four groups of three digits and column 6 holds the
\* phrase as written, 'Saldo inicial'.
CabeceraEstricta(row) ==
    Len(code_text(row[0])) = 4 /\ row[6] \in {SaldoInicialText, "Saldo inicial"}

\* The last row above row i of the grid that is a header by the predicate
\* with the wide reading (wide = TRUE) or the strict one; 0 when none is.
UltimaCabecera(i, wide) ==
    LET hs == {j \in 1..(i - 1) :
                  IF wide THEN CabeceraAmplia(raw[j]) ELSE CabeceraEstricta(raw[j])}
    IN  IF hs = {} THEN 0 ELSE CHOOSE j \in hs : \A h \in hs : h <= j

\* The last strict header row above row i whose name cell is not empty; 0
\* when there is none.
UltimaCabeceraConNombre(i) ==
    LET hs == {j \in 1..(i - 1) : CabeceraEstricta(raw[j]) /\ raw[j][1] # NA}
    IN  IF hs = {} THEN 0 ELSE CHOOSE j \in hs : \A h \in hs : h <= j

\* Every movement carries the code and name of the last header above it, by
\* the wide reading of the predicate, and none when there is no such row.
ContextoAmplio ==
    \A j \in DOMAIN movs_valid :
        LET h == UltimaCabecera(movs_valid[j].fila, TRUE)
        IN  IF h = 0
            THEN movs_valid[j].account_code = NA /\ movs_valid[j].account_name = NA
            ELSE /\ movs_valid[j].account_code = raw[h][0]
                 /\ movs_valid[j].account_name = raw[h][1]

\* Every movement carries the code of the last strict header above it and
\* the name of the last strict header above it whose name cell is not empty,
\* and none when there is no such row.
ContextoEstricto ==
    \A j \in DOMAIN movs_valid :
        LET h == UltimaCabecera(movs_valid[j].fila, FALSE)
            n == UltimaCabeceraConNombre(movs_valid[j].fila)
        IN  /\ movs_valid[j].account_code = IF h = 0 THEN NA ELSE raw[h][0]
            /\ movs_valid[j].account_name = IF n = 0 THEN NA ELSE raw[n][1]

\* C16 as stated. A row starts an account context exactly when column 0 is a
\* code of three or four groups and 'Saldo inicial' occurs, in any case, in
\* any column; its columns 0 and 1 are the code and name of the rows below it
\* up to the next such row.
C16_HeaderPredicateWide ==
    uploaded => ContextoAmplio

\* C16 as amended. A row starts an account context exactly when column 0 is
\* a code of four groups of three digits and column 6 holds 'Saldo inicial'
\* written so; its column 0 is the code of the rows below it up to the next
\* such row, and its column 1, when not empty, their name (below a header
\* with an empty name cell the name of the header before it stays).
C16_HeaderPredicateStrict ==
    uploaded => ContextoEstricto

\* C16 witness: a movement below a row that is a header by the wide reading
\* only, carrying the account of the header row above that one.
C16_Witness ==
    /\ uploaded
    /\ \E j \in DOMAIN movs_valid :
          /\ UltimaCabecera(movs_valid[j].fila, FALSE) # 0
          /\ UltimaCabecera(movs_valid[j].fila, TRUE)
                 > UltimaCabecera(movs_valid[j].fila, FALSE)
          /\ movs_valid[j].account_code = CodeA

\* The date cells of the vocabulary that are a day, a month abbreviation and
\* a year around '/' or '-'; those with two digits of day around '/'; those
\* whose month is one of the twelve (in any case) and has that day.
FechasAmplias == {D1, D2, DX, D1Corto, D1Guion, D1Mayus, DFeb31}

FechasEstrictas == {D1, D2, DX, D1Mayus, DFeb31}

FechasDelCalendario == {D1, D2, D1Corto, D1Guion, D1Mayus}

\* The rows of the grid whose reference is not missing and whose column 0 is
\* one of the cells ds.
FilasConFecha(ds) ==
    {i \in 1..Len(raw) : raw[i][0] \in ds /\ clean_referencia(raw[i][4]) # NA}

\* The movements of the rows ds have a date exactly when their date cell is
\* of the calendar.
FechaSiDelCalendario(ds) ==
    \A i \in FilasConFecha(ds) :
        \A j \in MovsDeFila(i) :
            movs_valid[j].fecha # NaT <=> raw[i][0] \in FechasDelCalendario

\* C17 as stated. A row is a movement row exactly when column 0 is a day of
\* one or two digits, a month abbreviation of three letters and a year of
\* four digits around '/' or '-'; its date is null exactly when the month is
\* none of the twelve or has no such day.
C17_MovementPredicateWide ==
    uploaded =>
        /\ \A i \in 1..Len(raw) :
              MovsDeFila(i) # {} <=> i \in FilasConFecha(FechasAmplias)
        /\ FechaSiDelCalendario(FechasAmplias)

\* C17 as amended. A row is a movement row exactly when column 0 is a day of
\* two digits, a month abbreviation of three letters and a year of four
\* digits around '/'; its date is null exactly when the month is none of the
\* twelve (in any case of letters) or has no such day.
C17_MovementPredicateStrict ==
    uploaded =>
        /\ \A i \in 1..Len(raw) :
              MovsDeFila(i) # {} <=> i \in FilasConFecha(FechasEstrictas)
        /\ FechaSiDelCalendario(FechasEstrictas)

\* C17 witness: a row with a 1-digit day that is no movement, next to a
\* movement with the month in capitals and a date.
C17_Witness ==
    /\ uploaded
    /\ \E i \in FilasConFecha({D1Corto, D1Guion}) : MovsDeFila(i) = {}
    /\ \E j \in DOMAIN movs_valid :
          raw[movs_valid[j].fila][0] = D1Mayus /\ movs_valid[j].fecha # NaT

-----------------------------------------------------------------------------
(* Cross-account views, control totals per account.                         *)

\* The account codes of the header rows above the movements of reference r.
CodigosDe(r) ==
    {raw[LastHeader(movs_valid[i].fila)][0] :
        i \in {j \in MovsDe(r) : LastHeader(movs_valid[j].fila) # 0}}

\* C19. Under every filter the cross-account pending view and the
\* cross-account paid view share no reference, each holds only references
\* whose movements lie in more than one account, and a cross-account
\* reference with a net balance below 0 is in neither.
C19_CrossViewsDisjoint ==
    uploaded =>
        /\ {g.referencia : g \in df_tab3} \cap {g.referencia : g \in df_tab4} = {}
        /\ \A g \in df_tab3 \cup df_tab4 : Cardinality(CodigosDe(g.referencia)) > 1
        /\ \A g \in df_tab3 : g.saldo_factura > 0
        /\ \A g \in df_tab4 : g.saldo_factura = 0
        /\ \A g \in facturas_global :
              (Cardinality(CodigosDe(g.referencia)) > 1 /\ g.saldo_factura < 0)
                  => g \notin df_tab3 /\ g \notin df_tab4

\* C19 witness: a reference with credits in two accounts, dated inside the
\* window.
C19_Witness ==
    /\ uploaded
    /\ \E g \in facturas_global :
          /\ Cardinality(CodigosDe(g.referencia)) > 1
          /\ g.saldo_factura < 0
          /\ EnRango(g)

\* C20. Every 'Total:' row below a header row counts for the account of the
\* last header row above it; totales_cuentas_aux has one record per account
\* (code and name) with such a row and no other record; and the record's
\* debit, credit and final balance are the sums over all the account's
\* 'Total:' rows.
C20_ControlTotalsSummed ==
    uploaded =>
        /\ \A i \in tot_rows(raw) :
              LastHeader(i) # 0 =>
                  \E t \in totales_cuentas_aux :
                      Cuenta(t) = <<raw[LastHeader(i)][0], raw[LastHeader(i)][1]>>
        /\ \A t \in totales_cuentas_aux :
              /\ TotalRowsDe(Cuenta(t)) # {}
              /\ Cardinality({u \in totales_cuentas_aux : Cuenta(u) = Cuenta(t)}) = 1
              /\ t.cargos_total_cuenta_aux = ControlTotal(Cuenta(t), 5)
              /\ t.abonos_total_cuenta_aux = ControlTotal(Cuenta(t), 6)
              /\ t.saldo_final_cuenta_aux = ControlTotal(Cuenta(t), 7)

\* C20 witness: an account with two 'Total:' rows, apart in the grid, and
\* the sum of their final balances.
C20_Witness ==
    /\ uploaded
    /\ \E t \in totales_cuentas_aux :
          /\ Cardinality(TotalRowsDe(Cuenta(t))) = 2
          /\ t.saldo_final_cuenta_aux = 2000
    /\ Cardinality(totales_cuentas_aux) = 2

====
